---- MODULE Spec2Model ----
(***************************************************************************)
(* Suffix-automaton drafter of SAM-Decoding.                               *)
(*                                                                         *)
(* The three automaton classes of the repository (SAM with its DynSAM and  *)
(* StaticSAM subclasses in evaluation/model/sam_only_v2/sam/sam.py,        *)
(* StaticSAM in samd/sam/static_sam.py, DynSAM in                          *)
(* samd_sam_only/sam/dyn_sam.py) share add_state, transfer_state,          *)
(* add_tokens, transfer_tokens and lookup line for line; sam.py adds the   *)
(* cnt_endpos field and its ancestor walk.  One automaton record models    *)
(* all of them, cnt_endpos included.                                       *)
(*                                                                         *)
(* Python lists are 0-based.  self.states is a function on 0..n-1, so that *)
(* state indices are the code's.  self.input_ids is a sequence whose TLA+  *)
(* position i+1 holds the Python element i (position 1 is the sentinel -1).*)
(* A dict is a function (field next) together with the insertion order of  *)
(* its keys (field keys), the order in which Python iterates it.           *)
(***************************************************************************)
EXTENDS Integers, Sequences, FiniteSets, TLC

\* ------------------------------------------------------------- bounds
MaxToken == 2        \* tokens are 1..MaxToken
MaxLen == 6          \* longest stream indexed where construction is explored
MaxCorpus == 4       \* longest stream of a static corpus (appended eos included)
MaxFed == 3          \* most tokens fed to a cursor by transfer_tokens after a reset
MaxDraftCorpus == 2  \* longest stream of the static corpus a drafter is given
MaxUpdate == 3       \* most tokens a drafter is updated with after a reset
MaxGenLen == 3       \* longest stream indexed where gen_draft is explored
MaxPredicts == 5     \* largest n_predicts / max_predicts a constructor is given
MaxCall == 2         \* most tokens passed to one add_tokens / transfer_tokens / update
MaxMatch == 2        \* largest match_length passed to gen_draft
MaxBias == 1         \* largest len_bias of a drafter configuration
MaxThreshold == 1    \* largest len_threshold of a drafter configuration
MaxNodes == 6        \* most nodes of a parent array given to gen_buffers
MaxTreeLen == 4      \* longest stream indexed where the tree drafts are explored
MaxTreePredicts == 4 \* largest max_predicts where the tree drafts are explored

\* ------------------------------------------------------------- constants
Alpha == 4           \* alpha, the draft budget per matched token
Sentinel == 0 - 1    \* input_ids[0]
NoLink == 0 - 1      \* link of the initial state
PadToken == 0        \* padding of a short linear draft

Tokens == 1..MaxToken

Min(a, b) == IF a <= b THEN a ELSE b

\* All sequences over S of length lo..hi.
SeqsOf(S, lo, hi) == UNION {[1..k -> S] : k \in lo..hi}

\* ------------------------------------------------------------- the automaton

\* SAMState(next={}, link=-1, length=l, min_endpos=e, cnt_endpos=0)
NewState(l, e) ==
    [next |-> <<>>, keys |-> <<>>, link |-> NoLink, length |-> l,
     min_endpos |-> e, cnt_endpos |-> 0]

\* SAM.__init__ / DynSAM.__init__ / StaticSAM.__init__
NewSAM(n_predicts) ==
    [n_predicts |-> n_predicts,
     states |-> [i \in {0} |-> NewState(0, 0)],
     input_ids |-> <<Sentinel>>,
     last |-> 0,
     max_length |-> 0,
     cur_index |-> 0,
     cur_length |-> 0]

\* len(self.states)
NumStates(states) == Cardinality(DOMAIN states)

\* token in self.states[p].next
HasNext(states, p, token) == token \in DOMAIN states[p].next

\* self.states[p].next[token] = target  (a new key goes last in iteration order)
SetNext(states, p, token, target) ==
    [states EXCEPT ![p] =
        [@ EXCEPT !.next = [t \in (DOMAIN @) \cup {token} |->
                                IF t = token THEN target ELSE @[t]],
                  !.keys = IF token \in DOMAIN states[p].next
                           THEN @ ELSE Append(@, token)]]

\* expand_state that appends the state twice.
expand_state_Twice(states, state) ==
    [i \in 0..(NumStates(states) + 1) |->
        IF i < NumStates(states) THEN states[i] ELSE state]

\* expand_state: self.states.append(state); the new index is the old length.
expand_state(states, state) ==
    [i \in 0..NumStates(states) |->
        IF i < NumStates(states) THEN states[i] ELSE state]

\* add_state, first loop: install next[token] = cur along the suffix chain of
\* last while the state has no transition on token.  Yields the states and
\* the p the loop stops at.
RECURSIVE InstallWalk(_, _, _, _)
InstallWalk(states, p, token, cur) ==
    IF p # NoLink /\ ~HasNext(states, p, token)
    THEN InstallWalk(SetNext(states, p, token, cur), states[p].link, token, cur)
    ELSE [states |-> states, p |-> p]

\* RedirectWalk with the redirection forgotten: the transitions into q stay.
RedirectWalk_None(states, p, token, q, clone) == states

\* add_state, clone loop: redirect next[token] from q to clone along the chain.
RECURSIVE RedirectWalk(_, _, _, _, _)
RedirectWalk(states, p, token, q, clone) ==
    IF p # NoLink /\ states[p].next[token] = q
    THEN RedirectWalk(SetNext(states, p, token, clone), states[p].link,
                      token, q, clone)
    ELSE states

\* CountWalk that counts nothing: cnt_endpos stays as the states were created.
CountWalk_None(states, cur) == states

\* CountWalk that counts the new state only, its suffix ancestors left out.
CountWalk_OnlyCur(states, cur) ==
    IF cur # 0 THEN [states EXCEPT ![cur].cnt_endpos = @ + 1] ELSE states

\* add_state, last loop of sam.py: cnt_endpos += 1 from cur up to, not
\* including, state 0.
RECURSIVE CountWalk(_, _)
CountWalk(states, cur) ==
    IF cur # 0
    THEN CountWalk([states EXCEPT ![cur].cnt_endpos = @ + 1], states[cur].link)
    ELSE states

\* LinkStep whose clone keeps the length of the state it copies.
LinkStep_CloneKeepsLength(states, p, token, cur) ==
    IF p = NoLink
    THEN [states EXCEPT ![cur].link = 0]
    ELSE LET q == states[p].next[token] IN
         IF states[p].length + 1 = states[q].length
         THEN [states EXCEPT ![cur].link = q]
         ELSE LET clone == NumStates(states)
                  s1 == expand_state(states, states[q])
                  s3 == RedirectWalk(s1, p, token, q, clone)
              IN  [s3 EXCEPT ![q].link = clone, ![cur].link = clone]

\* The link, clone and redirect part of add_state, after the first loop.
LinkStep(states, p, token, cur) ==
    IF p = NoLink
    THEN [states EXCEPT ![cur].link = 0]
    ELSE LET q == states[p].next[token] IN
         IF states[p].length + 1 = states[q].length
         THEN [states EXCEPT ![cur].link = q]
         ELSE LET clone == NumStates(states)
                  s1 == expand_state(states, states[q])
                  s2 == [s1 EXCEPT ![clone].length = states[p].length + 1]
                  s3 == RedirectWalk(s2, p, token, q, clone)
              IN  [s3 EXCEPT ![q].link = clone, ![cur].link = clone]

\* add_state with a 0-based min_endpos for the new state.
add_state_ZeroBasedEndpos(a, token) ==
    LET ml  == a.max_length + 1
        cur == NumStates(a.states)
        s0  == expand_state(a.states, NewState(ml, ml - 1))
        w   == InstallWalk(s0, a.last, token, cur)
        s1  == LinkStep(w.states, w.p, token, cur)
    IN  [a EXCEPT !.max_length = ml,
                  !.states = CountWalk(s1, cur),
                  !.last = cur]

\* add_state(token) on automaton a.
add_state(a, token) ==
    LET ml  == a.max_length + 1
        cur == NumStates(a.states)
        s0  == expand_state(a.states, NewState(ml, ml))
        w   == InstallWalk(s0, a.last, token, cur)
        s1  == LinkStep(w.states, w.p, token, cur)
    IN  [a EXCEPT !.max_length = ml,
                  !.states = CountWalk(s1, cur),
                  !.last = cur]

\* transfer_state that forgets the match and restarts at the initial state.
transfer_state_Restart(states, index, length, token) ==
    IF HasNext(states, 0, token) THEN <<states[0].next[token], 1>> ELSE <<0, 0>>

\* transfer_state that keeps the matched length when it falls back along a
\* suffix link.
RECURSIVE transfer_state_KeepLength(_, _, _, _)
transfer_state_KeepLength(states, index, length, token) ==
    IF index # 0 /\ ~HasNext(states, index, token)
    THEN transfer_state_KeepLength(states, states[index].link, length, token)
    ELSE IF HasNext(states, index, token)
         THEN <<states[index].next[token], length + 1>>
         ELSE <<0, 0>>

\* transfer_state(index, length, token): the pair <<index, length>>.
RECURSIVE transfer_state(_, _, _, _)
transfer_state(states, index, length, token) ==
    IF index # 0 /\ ~HasNext(states, index, token)
    THEN transfer_state(states, states[index].link,
                        states[states[index].link].length, token)
    ELSE IF HasNext(states, index, token)
         THEN <<states[index].next[token], length + 1>>
         ELSE <<0, 0>>

\* transfer_cur_state(token)
transfer_cur_state(a, token) ==
    LET r == transfer_state(a.states, a.cur_index, a.cur_length, token)
    IN  [a EXCEPT !.cur_index = r[1], !.cur_length = r[2]]

\* AddLoop that indexes the token before it advances the cursor.
RECURSIVE AddLoop_IndexFirst(_, _)
AddLoop_IndexFirst(a, tokens) ==
    IF tokens = <<>> THEN a
    ELSE AddLoop_IndexFirst(
             transfer_cur_state(add_state(a, Head(tokens)), Head(tokens)),
             Tail(tokens))

\* The loop of add_tokens: cursor first, then add_state, per token.
RECURSIVE AddLoop(_, _)
AddLoop(a, tokens) ==
    IF tokens = <<>> THEN a
    ELSE AddLoop(add_state(transfer_cur_state(a, Head(tokens)), Head(tokens)),
                 Tail(tokens))

\* add_tokens without input_ids.extend(tokens).
add_tokens_NoExtend(a, tokens) == AddLoop(a, tokens)

\* add_tokens(tokens): the loop, then input_ids.extend(tokens).
add_tokens(a, tokens) ==
    LET b == AddLoop(a, tokens)
    IN  [b EXCEPT !.input_ids = @ \o tokens]

\* transfer_tokens that indexes the tokens as add_tokens does.
transfer_tokens_Indexing(a, tokens) == add_tokens(a, tokens)

\* transfer_tokens(tokens)
RECURSIVE transfer_tokens(_, _)
transfer_tokens(a, tokens) ==
    IF tokens = <<>> THEN a
    ELSE transfer_tokens(transfer_cur_state(a, Head(tokens)), Tail(tokens))

\* lookup that starts at the initial state instead of the cursor.
lookup_FromRoot(a, token) == transfer_state(a.states, 0, 0, token)

\* lookup(token): the pair <<index, length>>, the cursor left alone.
lookup(a, token) == transfer_state(a.states, a.cur_index, a.cur_length, token)

\* DynSAM.reset that resets the cursor and keeps the arena.
DynReset_KeepArena(a) == [a EXCEPT !.cur_index = 0, !.cur_length = 0]

\* DynSAM.reset: a new arena, the construction parameters kept.
DynReset(a) == NewSAM(a.n_predicts)

\* StaticSAM.reset: the cursor only.
StaticReset(a) == [a EXCEPT !.cur_index = 0, !.cur_length = 0]

\* Python's list[lo:hi] for 0 <= lo and 0 <= hi (position i+1 holds element i).
PySlice(list, lo, hi) == SubSeq(list, lo + 1, Min(hi, Len(list)))

\* [value] * count
Repeat(value, count) == [i \in 1..count |-> value]

\* The budget without the cap max_predicts.
Budget_NoCap(a, match_length) == 1 + match_length * Alpha

\* n = min(self.max_predicts, 1 + int(match_length * self.alpha))
Budget(a, match_length) == Min(a.n_predicts, 1 + match_length * Alpha)

\* StaticSAM.gen_draft without the padding.
StaticGenDraft_NoPad(a, index, start_token) ==
    LET endpos == a.states[index].min_endpos
    IN  <<start_token>> \o
        PySlice(a.input_ids, endpos + 1, endpos + a.n_predicts)

\* StaticSAM.gen_draft(index, start_token): pred_ids.
StaticGenDraft(a, index, start_token) ==
    LET endpos   == a.states[index].min_endpos
        pred_ids == <<start_token>> \o
                    PySlice(a.input_ids, endpos + 1, endpos + a.n_predicts)
    IN  IF Len(pred_ids) < a.n_predicts
        THEN pred_ids \o Repeat(PadToken, a.n_predicts - Len(pred_ids))
        ELSE pred_ids

\* DynSAM.gen_draft(index, match_length, start_token): seq, the first
\* component of the result (seq_position_ids is arange(0, len(seq))).
DynGenDraft(a, index, match_length, start_token) ==
    LET n      == Budget(a, match_length)
        endpos == a.states[index].min_endpos
    IN  <<start_token>> \o PySlice(a.input_ids, endpos + 1, endpos + n)

\* StaticSAM.add_batch_tokens(batch_tokens, eos_token, verbose)
RECURSIVE add_batch_tokens(_, _, _)
add_batch_tokens(a, batch_tokens, eos_token) ==
    IF batch_tokens = <<>> THEN a
    ELSE LET tokens == Head(batch_tokens)
             b      == add_tokens(a, tokens)
             c      == IF tokens[Len(tokens)] # eos_token
                       THEN add_tokens(b, <<eos_token>>) ELSE b
         IN  add_batch_tokens(c, Tail(batch_tokens), eos_token)

\* StaticSAM.build(batch_tokens, eos_token, n_predict)
build(batch_tokens, eos_token, n_predict) ==
    add_batch_tokens(NewSAM(n_predict), batch_tokens, eos_token)

\* ------------------------------------------------------------- tree buffers

\* A parent array anc_tree is a sequence whose position i+1 holds the Python
\* element i; its values are node indices, 0-based, and -1 for the root.
\* Buffers indexed by node (is_leaf, tree_position_ids, tree_attn_mask and its
\* rows) are functions on 0..n-1.
AncAt(anc_tree, i) == anc_tree[i + 1]

\* pad_path without the padding.
pad_path_None(path, length) == path

\* pad_path(path, length, pad_value=-1)
pad_path(path, length) == path \o Repeat(0 - 1, length - Len(path))

\* list(reversed(list))
Reversed(list) == [k \in 1..Len(list) |-> list[Len(list) + 1 - k]]

\* gen_buffers, first loop, for i in range(1, n):
\*   is_leaf[anc_tree[i]] = False
\*   tree_position_ids[i] = tree_position_ids[anc_tree[i]] + 1
RECURSIVE LeafDepthLoop(_, _, _)
LeafDepthLoop(anc_tree, i, b) ==
    IF i >= Len(anc_tree) THEN b
    ELSE LeafDepthLoop(anc_tree, i + 1,
             [is_leaf |-> [b.is_leaf EXCEPT ![AncAt(anc_tree, i)] = FALSE],
              tree_position_ids |->
                  [b.tree_position_ids EXCEPT
                      ![i] = b.tree_position_ids[AncAt(anc_tree, i)] + 1]])

\* MaskRow that leaves the node itself out of its row.
RECURSIVE MaskRow_Strict(_, _, _)
MaskRow_Strict(anc_tree, j, row) ==
    IF AncAt(anc_tree, j) = 0 - 1 THEN row
    ELSE MaskRow_Strict(anc_tree, AncAt(anc_tree, j),
                        [row EXCEPT ![AncAt(anc_tree, j)] = TRUE])

\* gen_buffers, the while loop of row i of the mask, entered with j = i:
\*   while j != -1: tree_attn_mask[i, j] = True; j = anc_tree[j]
RECURSIVE MaskRow(_, _, _)
MaskRow(anc_tree, j, row) ==
    IF j = 0 - 1 THEN row
    ELSE MaskRow(anc_tree, AncAt(anc_tree, j), [row EXCEPT ![j] = TRUE])

\* gen_buffers, the while loop of a retrieval path, entered with [i]:
\*   while retrieve_indices[-1] != 0: append anc_tree[retrieve_indices[-1]]
RECURSIVE RetrievePath(_, _)
RetrievePath(anc_tree, retrieve_indices) ==
    LET tip == retrieve_indices[Len(retrieve_indices)] IN
    IF tip # 0
    THEN RetrievePath(anc_tree, Append(retrieve_indices, AncAt(anc_tree, tip)))
    ELSE retrieve_indices

\* gen_buffers, the loop over the leaves, for i in range(n): the reversed path
\* of every leaf, appended in the order of i.
RECURSIVE RetrieveLoop(_, _, _, _)
RetrieveLoop(anc_tree, is_leaf, i, nest) ==
    IF i >= Len(anc_tree) THEN nest
    ELSE IF ~is_leaf[i] THEN RetrieveLoop(anc_tree, is_leaf, i + 1, nest)
    ELSE RetrieveLoop(anc_tree, is_leaf, i + 1,
                      Append(nest, Reversed(RetrievePath(anc_tree, <<i>>))))

\* max(len(x) for x in nest)
MaxLenOf(nest) ==
    CHOOSE m \in {Len(nest[k]) : k \in 1..Len(nest)} :
        \A k \in 1..Len(nest) : Len(nest[k]) <= m

\* gen_buffers(anc_tree): the three buffers.
gen_buffers(anc_tree) ==
    LET n    == Len(anc_tree)
        b    == LeafDepthLoop(anc_tree, 1,
                    [is_leaf |-> [i \in 0..(n - 1) |-> TRUE],
                     tree_position_ids |-> [i \in 0..(n - 1) |-> 0]])
        nest == RetrieveLoop(anc_tree, b.is_leaf, 0, <<>>)
        max_depth == MaxLenOf(nest)
    IN  [tree_attn_mask |->
             [i \in 0..(n - 1) |->
                 MaskRow(anc_tree, i, [j \in 0..(n - 1) |-> FALSE])],
         tree_position_ids |-> b.tree_position_ids,
         tree_retrieve_indices |->
             [k \in 1..Len(nest) |-> pad_path(nest[k], max_depth)]]

\* ------------------------------------------------------------- tree drafts

\* A draft under construction: tree and anc_tree as the code builds them, and
\* for every node the automaton state and the SearchItem.prob it was extracted
\* with (history, the code does not keep them).  A probability is the exact
\* fraction num/den, den > 0; the code's are negative.
NewDraft == [raised |-> "", tree |-> <<>>, anc_tree |-> <<>>,
             index |-> <<>>, prob |-> <<>>]

\* tree.append(token); anc_tree.append(anc_tree_index)
AppendNode(d, token, anc_tree_index, index, prob) ==
    [d EXCEPT !.tree = Append(@, token),
              !.anc_tree = Append(@, anc_tree_index),
              !.index = Append(@, index),
              !.prob = Append(@, prob)]

\* SearchItem.__lt__ (order=True, prob the one compared field)
ProbLess(p, q) == p.num * q.den < q.num * p.den

\* heappop(h): the items it may return.  heapq returns an item of smallest prob; which
\* one among items of equal exact prob depends on the layout of the heap and
\* on the rounding of the float products, so any of them may be extracted.
\* heappop that extracts the item of largest prob, the least probable one.
Smallest_Worst(h) ==
    {item \in h : \A other \in h : ~ProbLess(item.prob, other.prob)}

Smallest(h) == {item \in h : \A other \in h : ~ProbLess(other.prob, item.prob)}

\* The SearchItems pushed for the transitions of item.index:
\*   n_prob = cnt_endpos(n_index) / cnt_sum;  prob = item.prob * n_prob
Children(a, item, cur_tree_index) ==
    LET state   == a.states[item.index]
        cnt_sum == state.cnt_endpos
    IN  {[prob |-> [num |-> item.prob.num * a.states[state.next[t]].cnt_endpos,
                    den |-> item.prob.den * cnt_sum],
          token |-> t, index |-> state.next[t],
          anc_tree_index |-> cur_tree_index] : t \in DOMAIN state.next}

\* The while loop of the best-first gen_draft: every draft it can end with.
\* The division by cnt_sum raises ZeroDivisionError when cnt_sum is 0 and the
\* state has a transition.
RECURSIVE BestFirstLoop(_, _, _, _)
BestFirstLoop(a, n, h, d) ==
    IF Len(d.tree) = n \/ h = {} THEN {d}
    ELSE UNION {
        LET cur_tree_index == Len(d.tree)
            d1    == AppendNode(d, item.token, item.anc_tree_index,
                                item.index, item.prob)
            state == a.states[item.index]
        IN  IF Len(d1.tree) = n THEN {d1}
            ELSE IF state.cnt_endpos = 0 /\ DOMAIN state.next # {}
            THEN {[d1 EXCEPT !.raised = "ZeroDivisionError"]}
            ELSE BestFirstLoop(a, n,
                     (h \ {item}) \cup Children(a, item, cur_tree_index), d1)
        : item \in Smallest(h)}

\* What a tree draft returns: tree and gen_buffers(anc_tree), and the history.
TreeResult(d) ==
    IF d.raised # "" THEN [d EXCEPT !.tree = <<>>] @@ [buffers |-> <<>>]
    ELSE d @@ [buffers |-> gen_buffers(d.anc_tree)]

\* SAM.gen_draft(index, match_length, start_token, device), sam.py: the set of
\* its possible results.
BestFirstGenDraft(a, index, match_length, start_token) ==
    {TreeResult(d) :
        d \in BestFirstLoop(a, Budget(a, match_length),
                  {[prob |-> [num |-> 0 - 1, den |-> 1], token |-> start_token,
                    index |-> index, anc_tree_index |-> 0 - 1]},
                  NewDraft)}

\* The tuples appended to h for the transitions of cur_index, in the order
\* next.items() yields them.
Expansion(a, cur_index, cur_tree_index) ==
    LET state == a.states[cur_index] IN
    [k \in 1..Len(state.keys) |->
        <<state.next[state.keys[k]], cur_tree_index, state.keys[k]>>]

\* The while loop of gen_tree_draft: h is a list that is never popped, the
\* node taken is h[len(tree)].
RECURSIVE TreeDraftLoop(_, _, _, _)
TreeDraftLoop(a, n, h, d) ==
    IF Len(d.tree) = n \/ Len(h) = Len(d.tree) THEN d
    ELSE LET cur_tree_index == Len(d.tree)
             e  == h[cur_tree_index + 1]
             d1 == AppendNode(d, e[3], e[2], e[1], [num |-> 0, den |-> 1])
         IN  IF Len(d1.tree) = n THEN d1
             ELSE TreeDraftLoop(a, n,
                      h \o Expansion(a, e[1], cur_tree_index), d1)

\* DynSAM.gen_tree_draft(index, match_length, start_token), dyn_sam.py
gen_tree_draft(a, index, match_length, start_token) ==
    TreeResult(TreeDraftLoop(a, Budget(a, match_length),
                             << <<index, 0 - 1, start_token>> >>, NewDraft))

\* ------------------------------------------------------------- the drafter

\* DraftModel.lookup(start_token).  Both automata are probed, the static match
\* is penalised by len_bias, ties go to the dynamic automaton.  In the sequence
\* branch the code evaluates [start_token] + pred, where pred is the first
\* component of lookup's result: the state index, an int (static_sam.py:106-109,
\* dyn_sam.py:111-114).  Python's list + int raises TypeError, so the branch
\* returns nothing.  The tree branch returns what the external tree model
\* returns, here the opaque payload "tree_model".
DraftModelLookup(dyn, static, cfg, start_token) ==
    LET d   == lookup(dyn, start_token)
        s   == lookup(static, start_token)
        match_dyn    == d[2]
        match_static == s[2] - cfg.len_bias
        from   == IF match_dyn >= match_static THEN "sam_dyn" ELSE "sam_static"
        pred   == IF match_dyn >= match_static THEN d[1] ELSE s[1]
        len    == IF match_dyn >= match_static THEN match_dyn ELSE match_static
    IN  IF len >= cfg.len_threshold
        THEN [raised |-> "TypeError", kind |-> "none", from |-> from,
              pred |-> pred, len |-> len, match_dyn |-> match_dyn,
              match_static |-> s[2]]
        ELSE [raised |-> "", kind |-> "tree", from |-> "tree_model",
              pred |-> pred, len |-> len, match_dyn |-> match_dyn,
              match_static |-> s[2]]

\* The indexed stream s = input_ids[1..max_length].
Stream(a) == Tail(a.input_ids)

\* ------------------------------------------------------------- the state machine

VARIABLES
    obj,         \* the object under construction and use: "DynSAM", "StaticSAM"
                 \* or "DraftModel" (which owns one of each)
    sam_dyn,     \* the dynamic automaton
    sam_static,  \* the static automaton
    config,      \* the drafter's len_bias and len_threshold
    fed,         \* history: whether the static cursor was reset since
                 \* construction, and the tokens it was fed since
    ret          \* the last call: its name, its arguments, what it returned

vars == <<obj, sam_dyn, sam_static, config, fed, ret>>

Call(op, arg, val) == [op |-> op, arg |-> arg, val |-> val]

NoConfig == [len_bias |-> 0, len_threshold |-> 0]
NotFed == [reset |-> FALSE, x |-> <<>>]

\* The batches whose sequences are non-empty and hold k tokens at most in all.
RECURSIVE BatchesOf(_)
BatchesOf(k) ==
    {<<>>} \cup
    UNION {{<<d>> \o b : b \in BatchesOf(k - Len(d))} : d \in SeqsOf(Tokens, 1, k)}

\* What add_batch_tokens indexes of a batch: every sequence, and eos_token
\* after each sequence that does not end in it.
RECURSIVE IndexedLen(_, _)
IndexedLen(batch_tokens, eos_token) ==
    IF batch_tokens = <<>> THEN 0
    ELSE LET d == Head(batch_tokens) IN
         Len(d) + (IF d[Len(d)] # eos_token THEN 1 ELSE 0)
                + IndexedLen(Tail(batch_tokens), eos_token)

\* The static automata built from a corpus of at most k indexed tokens.
StaticBuilt(k, n_predicts) ==
    {build(b, e, n_predicts) :
        <<b, e>> \in {c \in BatchesOf(k) \X Tokens : IndexedLen(c[1], c[2]) <= k}}

\* A stand-alone DynSAM(max_predicts).
InitIndex ==
    /\ obj = "DynSAM"
    /\ sam_dyn = NewSAM(MaxPredicts)
    /\ sam_static = NewSAM(MaxPredicts)
    /\ config = NoConfig
    /\ fed = NotFed
    /\ ret = Call("__init__", <<>>, <<>>)

\* The stream of the specification's cursor scenario, a corpus of one sequence
\* that ends in its eos token, and the tokens the cursor is fed over it.
FallbackCorpus == <<1, 2, 3, 1, 2, 4>>
FallbackEos == FallbackCorpus[Len(FallbackCorpus)]
FallbackFeed == <<1, 2, 3, 1, 2>>

\* A stand-alone StaticSAM.build(batch_tokens, eos_token, n_predict).
InitStatic ==
    /\ obj = "StaticSAM"
    /\ sam_dyn = NewSAM(MaxPredicts)
    /\ sam_static \in StaticBuilt(MaxCorpus, MaxPredicts)
                      \cup {build(<<FallbackCorpus>>, FallbackEos, MaxPredicts)}
    /\ config = NoConfig
    /\ fed = NotFed
    /\ ret = Call("build", <<>>, <<>>)

\* Either automaton alone, built with any draft length.
InitGen ==
    /\ obj \in {"DynSAM", "StaticSAM"}
    /\ \E n \in 1..MaxPredicts :
          /\ sam_dyn = NewSAM(n)
          /\ sam_static \in IF obj = "StaticSAM" THEN StaticBuilt(MaxGenLen, n)
                                                 ELSE {NewSAM(n)}
    /\ config = NoConfig
    /\ fed = NotFed
    /\ ret = Call(IF obj = "StaticSAM" THEN "build" ELSE "__init__", <<>>, <<>>)

\* DraftModel(config, sam_dyn=None, sam_static=<a built StaticSAM>).
InitDraft ==
    /\ obj = "DraftModel"
    /\ sam_dyn = NewSAM(MaxPredicts)
    /\ sam_static \in StaticBuilt(MaxDraftCorpus, MaxPredicts)
    /\ config \in [len_bias : 0..MaxBias, len_threshold : 1..MaxThreshold]
    /\ fed = NotFed
    /\ ret = Call("__init__", <<>>, <<>>)

\* DraftModel(config, sam_static=<a built StaticSAM>) of one configuration, the
\* largest: the configuration bears on what lookup returns, not on the automata.
InitUpdate ==
    /\ obj = "DraftModel"
    /\ sam_dyn = NewSAM(MaxPredicts)
    /\ sam_static \in StaticBuilt(MaxDraftCorpus, MaxPredicts)
    /\ config = [len_bias |-> MaxBias, len_threshold |-> MaxThreshold]
    /\ fed = NotFed
    /\ ret = Call("__init__", <<>>, <<>>)

\* DynSAM.reset()
DynResetOp ==
    /\ obj = "DynSAM"
    /\ sam_dyn' = DynReset(sam_dyn)
    /\ ret' = Call("reset", <<>>, <<>>)
    /\ UNCHANGED <<obj, sam_static, config, fed>>

\* The stream of the specification's construction scenario, indexed whole by
\* one add_tokens call on a fresh automaton.
ScenarioStreams == {<<1, 2, 1, 2, 3>>}

\* DynSAM.add_tokens(tokens): any tokens that keep the stream within cap
\* tokens, or one of the given streams on a fresh automaton.
DynAddTokensOp(cap, streams) ==
    /\ obj = "DynSAM"
    /\ \E tokens \in SeqsOf(Tokens, 0, MaxCall) \cup streams :
          /\ \/ sam_dyn.max_length + Len(tokens) <= cap
             \/ tokens \in streams /\ sam_dyn.max_length = 0
          /\ sam_dyn' = add_tokens(sam_dyn, tokens)
    /\ ret' = Call("add_tokens", <<>>, <<>>)
    /\ UNCHANGED <<obj, sam_static, config, fed>>

IndexAddTokens == DynAddTokensOp(MaxLen, ScenarioStreams)

GenAddTokens == DynAddTokensOp(MaxGenLen, {})

\* DynSAM.lookup(token)
DynLookup ==
    /\ obj = "DynSAM"
    /\ \E token \in Tokens :
          ret' = Call("lookup", <<token>>, lookup(sam_dyn, token))
    /\ UNCHANGED <<obj, sam_dyn, sam_static, config, fed>>

\* DynSAM.gen_draft(index, match_length, start_token)
DynGenDraftOp ==
    /\ obj = "DynSAM"
    /\ \E index \in DOMAIN sam_dyn.states, match_length \in 0..MaxMatch,
          start_token \in Tokens :
          ret' = Call("gen_draft", <<index, match_length, start_token>>,
                      DynGenDraft(sam_dyn, index, match_length, start_token))
    /\ UNCHANGED <<obj, sam_dyn, sam_static, config, fed>>

\* The well-formed parent arrays of n nodes: anc_tree[0] = -1 and
\* 0 <= anc_tree[i] < i for i > 0.
RECURSIVE ParentArrays(_)
ParentArrays(n) ==
    IF n = 1 THEN {<<0 - 1>>}
    ELSE {Append(a, parent) : a \in ParentArrays(n - 1), parent \in 0..(n - 2)}

\* gen_buffers(anc_tree) on any well-formed parent array.
GenBuffersOp ==
    /\ obj = "DynSAM"
    /\ \E n \in 1..MaxNodes : \E anc_tree \in ParentArrays(n) :
          ret' = Call("gen_buffers", <<anc_tree>>, gen_buffers(anc_tree))
    /\ UNCHANGED <<obj, sam_dyn, sam_static, config, fed>>

\* A stand-alone DynSAM built with any draft budget.
InitTree ==
    /\ obj = "DynSAM"
    /\ \E n \in 1..MaxTreePredicts : sam_dyn = NewSAM(n)
    /\ sam_static = NewSAM(MaxPredicts)
    /\ config = NoConfig
    /\ fed = NotFed
    /\ ret = Call("__init__", <<>>, <<>>)

TreeAddTokens == DynAddTokensOp(MaxTreeLen, {})

\* The (index, match_length) pairs a caller has for a draft that starts with
\* start_token: what lookup(start_token) returns, and the cursor.
DraftPairs(a, start_token) ==
    {lookup(a, start_token), <<a.cur_index, a.cur_length>>}

\* index, length = lookup(start_token) (or the cursor), then the best-first
\* gen_draft(index, length, start_token, device) of sam.py.
BestFirstDraftOp ==
    /\ obj = "DynSAM"
    /\ \E start_token \in Tokens :
       \E pair \in DraftPairs(sam_dyn, start_token) :
       \E val \in BestFirstGenDraft(sam_dyn, pair[1], pair[2], start_token) :
          ret' = Call("gen_draft", <<pair[1], pair[2], start_token>>, val)
    /\ UNCHANGED <<obj, sam_dyn, sam_static, config, fed>>

\* index, length = lookup(start_token) (or the cursor), then
\* gen_tree_draft(index, length, start_token) of dyn_sam.py.
TreeDraftOp ==
    /\ obj = "DynSAM"
    /\ \E start_token \in Tokens :
       \E pair \in DraftPairs(sam_dyn, start_token) :
          ret' = Call("gen_tree_draft", <<pair[1], pair[2], start_token>>,
                      gen_tree_draft(sam_dyn, pair[1], pair[2], start_token))
    /\ UNCHANGED <<obj, sam_dyn, sam_static, config, fed>>

\* StaticSAM.reset()
StaticResetOp ==
    /\ obj = "StaticSAM"
    /\ sam_static' = StaticReset(sam_static)
    /\ fed' = [reset |-> TRUE, x |-> <<>>]
    /\ ret' = Call("reset", <<>>, <<>>)
    /\ UNCHANGED <<obj, sam_dyn, config>>

\* StaticSAM.transfer_tokens(tokens)
StaticTransferTokens ==
    /\ obj = "StaticSAM"
    /\ \E tokens \in SeqsOf(Tokens, 0, MaxCall) :
          /\ Len(fed.x) + Len(tokens) <= MaxFed
          /\ sam_static' = transfer_tokens(sam_static, tokens)
          /\ fed' = [fed EXCEPT !.x = @ \o tokens]
    /\ ret' = Call("transfer_tokens", <<>>, <<>>)
    /\ UNCHANGED <<obj, sam_dyn, config>>

\* StaticSAM.transfer_tokens(tokens) over the scenario corpus: after a reset,
\* the scenario's tokens 1,2,3, then 1, then 2.
StaticFallbackTransfer ==
    /\ obj = "StaticSAM"
    /\ Stream(sam_static) = FallbackCorpus
    /\ fed.reset
    /\ \E tokens \in {<<1, 2, 3>>, <<1>>, <<2>>} :
          /\ Len(fed.x) + Len(tokens) <= Len(FallbackFeed)
          /\ fed.x \o tokens = SubSeq(FallbackFeed, 1, Len(fed.x) + Len(tokens))
          /\ sam_static' = transfer_tokens(sam_static, tokens)
          /\ fed' = [fed EXCEPT !.x = @ \o tokens]
    /\ ret' = Call("transfer_tokens", <<>>, <<>>)
    /\ UNCHANGED <<obj, sam_dyn, config>>

\* StaticSAM.lookup(token)
StaticLookup ==
    /\ obj = "StaticSAM"
    /\ \E token \in Tokens :
          ret' = Call("lookup", <<token>>, lookup(sam_static, token))
    /\ UNCHANGED <<obj, sam_dyn, sam_static, config, fed>>

\* StaticSAM.gen_draft(index, start_token)
StaticGenDraftOp ==
    /\ obj = "StaticSAM"
    /\ \E index \in DOMAIN sam_static.states, start_token \in Tokens :
          ret' = Call("gen_draft", <<index, start_token>>,
                      StaticGenDraft(sam_static, index, start_token))
    /\ UNCHANGED <<obj, sam_dyn, sam_static, config, fed>>

\* DraftModel.reset(): both automata (and the external tree model).
DraftReset ==
    /\ obj = "DraftModel"
    /\ sam_dyn' = DynReset(sam_dyn)
    /\ sam_static' = StaticReset(sam_static)
    /\ fed' = [reset |-> TRUE, x |-> <<>>]
    /\ ret' = Call("reset", <<>>, <<>>)
    /\ UNCHANGED <<obj, config>>

\* DraftModel.update(tokens): the dynamic automaton indexes the tokens, the
\* static cursor follows them (and the external tree model is told).
DraftUpdate ==
    /\ obj = "DraftModel"
    /\ \E tokens \in SeqsOf(Tokens, 0, MaxCall) :
          /\ sam_dyn.max_length + Len(tokens) <= MaxUpdate
          /\ sam_dyn' = add_tokens(sam_dyn, tokens)
          /\ sam_static' = transfer_tokens(sam_static, tokens)
          /\ fed' = [fed EXCEPT !.x = @ \o tokens]
    /\ ret' = Call("update", <<>>, <<>>)
    /\ UNCHANGED <<obj, config>>

\* DraftModel.lookup(start_token)
DraftLookup ==
    /\ obj = "DraftModel"
    /\ \E start_token \in Tokens :
          ret' = Call("lookup", <<start_token>>,
                      DraftModelLookup(sam_dyn, sam_static, config, start_token))
    /\ UNCHANGED <<obj, sam_dyn, sam_static, config, fed>>

NextIndex == DynResetOp \/ IndexAddTokens \/ DynLookup

NextStatic ==
    StaticResetOp \/ StaticTransferTokens \/ StaticFallbackTransfer \/ StaticLookup

NextBuffers == GenBuffersOp

NextTree == TreeAddTokens \/ BestFirstDraftOp \/ TreeDraftOp

NextGen == GenAddTokens \/ DynGenDraftOp \/ StaticGenDraftOp

NextDraft == DraftReset \/ DraftUpdate \/ DraftLookup

\* Construction of the index: a DynSAM driven by reset, add_tokens and lookup.
SpecIndex == InitIndex /\ [][NextIndex]_vars

\* A built StaticSAM, its arena frozen: reset, transfer_tokens and lookup.
SpecStatic == InitStatic /\ [][NextStatic]_vars

\* Linear drafts of either automaton.
SpecGen == InitGen /\ [][NextGen]_vars

\* The tree buffers of every well-formed parent array.
SpecBuffers == InitIndex /\ [][NextBuffers]_vars

\* The tree drafts of a DynSAM: best-first and breadth-first.
SpecTree == InitTree /\ [][NextTree]_vars

\* The two-automaton drafter.
SpecDraft == InitDraft /\ [][NextDraft]_vars

\* The automata of the drafter under reset, update and lookup.
SpecUpdate == InitUpdate /\ [][NextDraft]_vars

\* ------------------------------------------------------------- what the stream says

\* The suffix of x of length k.
Suffix(x, k) == SubSeq(x, Len(x) - k + 1, Len(x))

\* The 1-based positions of s at which an occurrence of w ends.
EndPos(w, s) == {e \in Len(w)..Len(s) : SubSeq(s, e - Len(w) + 1, e) = w}

\* w is a contiguous substring of s.
Occurs(w, s) == EndPos(w, s) # {}

\* The non-empty contiguous substrings of s.
Substrings(s) == {SubSeq(s, i, j) : <<i, j>> \in {c \in (1..Len(s)) \X (1..Len(s)) : c[1] <= c[2]}}

\* The length of the longest suffix of x that occurs in s.
LongestSuffixIn(x, s) ==
    CHOOSE k \in 0..Len(x) :
        /\ Occurs(Suffix(x, k), s)
        /\ \A j \in (k + 1)..Len(x) : ~Occurs(Suffix(x, j), s)

SetMin(S) == CHOOSE m \in S : \A e \in S : m <= e

\* The state the transitions labelled w lead to from state 0, or -1.
RECURSIVE PathFrom(_, _, _)
PathFrom(states, v, w) ==
    IF w = <<>> THEN v
    ELSE IF HasNext(states, v, Head(w))
         THEN PathFrom(states, states[v].next[Head(w)], Tail(w))
         ELSE 0 - 1

Path(a, w) == PathFrom(a.states, 0, w)

\* Every [w, v] such that the transitions labelled w, at most k of them, lead
\* from state 0 to v.
RECURSIVE Labels(_, _)
Labels(states, k) ==
    IF k = 0 THEN {[w |-> <<>>, v |-> 0]}
    ELSE LET shorter == Labels(states, k - 1) IN
         shorter \cup
         UNION {{[w |-> Append(e.w, t), v |-> states[e.v].next[t]] :
                    t \in DOMAIN states[e.v].next} : e \in shorter}

\* ------------------------------------------------------------- claims

\* C1: after any sequence of add_tokens calls on a fresh automaton, a token
\* sequence labels a path of transitions from state 0 if and only if it is a
\* contiguous substring of the indexed stream; every suffix of the stream in
\* particular labels such a path.
C1_PathsAreSubstrings ==
    LET s == Stream(sam_dyn) IN
    /\ \A w \in Substrings(s) \cup {<<>>} : Path(sam_dyn, w) # 0 - 1
    /\ \A k \in 0..Len(s) : Path(sam_dyn, Suffix(s, k)) # 0 - 1
    /\ \A e \in Labels(sam_dyn.states, Len(s) + 1) : Occurs(e.w, s)

\* C1, witness: a stream has been indexed in which a state was cloned.
C1_Witness ==
    /\ ret.op = "add_tokens"
    /\ sam_dyn.max_length >= 3
    /\ NumStates(sam_dyn.states) > sam_dyn.max_length + 1
    /\ Path(sam_dyn, Stream(sam_dyn)) = sam_dyn.last

\* C2: on a static automaton, after reset() and transfer_tokens of the tokens
\* x, cur_length is the length of the longest suffix of x that occurs in the
\* indexed stream, and cur_index is the state that suffix leads to (state 0
\* with length 0 when no non-empty suffix occurs).
C2_CursorIsLongestSuffix ==
    fed.reset =>
        LET k == LongestSuffixIn(fed.x, Stream(sam_static)) IN
        /\ sam_static.cur_length = k
        /\ sam_static.cur_index = Path(sam_static, Suffix(fed.x, k))

\* C2, witness: the cursor fell back, it matches a proper, non-empty suffix of
\* what it was fed.
C2_Witness ==
    /\ fed.reset
    /\ ret.op = "transfer_tokens"
    /\ sam_static.cur_length >= 1
    /\ sam_static.cur_length < Len(fed.x)
    /\ sam_static.cur_index # 0

\* C3, as amended: after add_tokens(p) on a fresh automaton, lookup(t) returns
\* as length the length of the longest suffix of p.t that occurs in p, the
\* stream indexed so far.
C3_LookupLongestSuffixInPrefix ==
    ret.op = "lookup" =>
        LET p == Stream(sam_dyn) IN
        ret.val[2] = LongestSuffixIn(Append(p, ret.arg[1]), p)

\* C3, as stated: the length is that of the longest suffix of p.t that occurs
\* somewhere in s, for every stream s that p is a prefix of.
C3_LookupLongestSuffixInStream ==
    ret.op = "lookup" =>
        LET p == Stream(sam_dyn) IN
        \A ext \in SeqsOf(Tokens, 0, 1) :
            ret.val[2] = LongestSuffixIn(Append(p, ret.arg[1]), p \o ext)

\* C3, witness: a lookup matched two tokens or more, and not the whole of p.t.
C3_Witness ==
    /\ ret.op = "lookup"
    /\ ret.val[2] >= 2
    /\ ret.val[2] < sam_dyn.max_length

\* C4, as amended: after add_tokens(s) on a fresh automaton the cursor
\* satisfies cur_length <= length(cur_index), and for a non-empty s it is
\* behind the index: cur_index # last and cur_length <= max_length - 1.
C4_CursorBehindLast ==
    /\ sam_dyn.cur_length <= sam_dyn.states[sam_dyn.cur_index].length
    /\ sam_dyn.max_length > 0 =>
          /\ sam_dyn.cur_index # sam_dyn.last
          /\ sam_dyn.cur_length <= sam_dyn.max_length - 1

\* C4, as stated: after add_tokens(s) on a fresh automaton,
\* cur_length = length(cur_index) and cur_index = last.
C4_CursorAtLast ==
    /\ sam_dyn.cur_length = sam_dyn.states[sam_dyn.cur_index].length
    /\ sam_dyn.cur_index = sam_dyn.last

\* C4, witness: a non-empty stream whose cursor holds a match shorter than the
\* length of its state.
C4_Witness ==
    /\ ret.op = "add_tokens"
    /\ sam_dyn.max_length >= 2
    /\ sam_dyn.cur_length >= 1
    /\ sam_dyn.cur_length < sam_dyn.states[sam_dyn.cur_index].length

\* C5: after every add_state, cnt_endpos of every non-initial state is the
\* number of end positions of the substrings it represents (every non-initial
\* state, a clone too, represents some substring); for the stream 1,2,1,2,3
\* the state of 1,2 counts 2 and the state of 1,2,3 counts 1.
C5_CntEndpos ==
    LET s == Stream(sam_dyn) IN
    /\ \A w \in Substrings(s) :
          sam_dyn.states[Path(sam_dyn, w)].cnt_endpos = Cardinality(EndPos(w, s))
    /\ \A v \in DOMAIN sam_dyn.states \ {0} :
          \E w \in Substrings(s) : Path(sam_dyn, w) = v
    /\ s = <<1, 2, 1, 2, 3>> =>
          /\ sam_dyn.states[Path(sam_dyn, <<1, 2>>)].cnt_endpos = 2
          /\ sam_dyn.states[Path(sam_dyn, <<1, 2, 3>>)].cnt_endpos = 1

\* C5, witness: a clone (the one kind of state whose length is less than its
\* min_endpos) that counts two end positions or more.
C5_Witness ==
    /\ ret.op = "add_tokens"
    /\ \E v \in DOMAIN sam_dyn.states :
          /\ sam_dyn.states[v].length < sam_dyn.states[v].min_endpos
          /\ sam_dyn.states[v].cnt_endpos >= 2
          /\ sam_dyn.states[v].link # 0

\* C6, the state part: min_endpos of every non-initial state is the smallest
\* end position of the substrings it represents.
C6_MinEndposIsEarliest ==
    LET s == Stream(sam_dyn) IN
    /\ \A w \in Substrings(s) :
          sam_dyn.states[Path(sam_dyn, w)].min_endpos = SetMin(EndPos(w, s))
    /\ \A v \in DOMAIN sam_dyn.states \ {0} :
          \E w \in Substrings(s) : Path(sam_dyn, w) = v

\* C6, the step part: add_tokens leaves min_endpos of every existing state as
\* it was.
C6_MinEndposKept ==
    ret'.op = "add_tokens" =>
        \A v \in DOMAIN sam_dyn.states :
            /\ v \in DOMAIN sam_dyn'.states
            /\ sam_dyn'.states[v].min_endpos = sam_dyn.states[v].min_endpos

\* C6: after any add_tokens sequence min_endpos of every non-initial state is
\* the smallest 1-based end position at which its substrings occur, clones
\* included, and no later add_state changes the min_endpos of an existing
\* state.
C6_MinEndpos == [](C6_MinEndposIsEarliest) /\ [][C6_MinEndposKept]_vars

\* C6, witness: a clone, created after the position its substrings first end
\* at, which is not the last position of the stream.
C6_Witness ==
    /\ ret.op = "add_tokens"
    /\ \E v \in DOMAIN sam_dyn.states :
          /\ v > sam_dyn.states[v].min_endpos
          /\ sam_dyn.states[v].length < sam_dyn.states[v].min_endpos
          /\ sam_dyn.states[v].min_endpos < sam_dyn.max_length

\* The automaton the last gen_draft call was made on, and its arguments.
DraftSam == IF obj = "StaticSAM" THEN sam_static ELSE sam_dyn
DraftIndex == ret.arg[1]
DraftStart == IF obj = "StaticSAM" THEN ret.arg[2] ELSE ret.arg[3]
\* The draft budget n: n_predicts for the static automaton,
\* min(max_predicts, 1 + floor(match_length * alpha)) for the dynamic one.
DraftBudget ==
    IF obj = "StaticSAM" THEN sam_static.n_predicts
    ELSE Min(sam_dyn.n_predicts, 1 + ret.arg[2] * Alpha)
DraftEndpos == DraftSam.states[DraftIndex].min_endpos
\* The number of stream tokens after position min_endpos(index).
DraftTokensLeft == DraftSam.max_length - DraftEndpos

\* C7, as stated: the linear gen_draft of either automaton returns exactly n
\* entries, n the draft budget: start_token, then the stream tokens after
\* position min_endpos(index), then 0 in every position the stream does not
\* fill.
C7_LinearDraftFillsBudget ==
    ret.op = "gen_draft" =>
        LET s == Stream(DraftSam) IN
        /\ Len(ret.val) = DraftBudget
        /\ ret.val[1] = DraftStart
        /\ \A i \in 2..DraftBudget :
              ret.val[i] = IF DraftEndpos + i - 1 <= Len(s)
                           THEN s[DraftEndpos + i - 1] ELSE PadToken

C9_RootDraftIsPadding ==
    (/\ ret.op = "gen_draft"
     /\ DraftIndex = 0
     /\ obj = "DynSAM" => ret.arg[2] = 0) =>
        /\ ret.val[1] = DraftStart
        /\ \A i \in 2..Len(ret.val) : ret.val[i] = PadToken

\* C10, as stated: DraftModel.lookup returns kind sequence if and only if
\* max(match_dyn, match_static - len_bias) >= len_threshold and kind tree
\* otherwise, the sequence coming from the dynamic automaton exactly when
\* match_dyn >= match_static - len_bias.
C10_LookupKind ==
    (obj = "DraftModel" /\ ret.op = "lookup") =>
        LET r == ret.val
            biased == r.match_static - config.len_bias
            best == IF r.match_dyn >= biased THEN r.match_dyn ELSE biased
        IN  /\ r.raised = ""
            /\ r.kind = "sequence" <=> best >= config.len_threshold
            /\ r.kind = "tree" <=> best < config.len_threshold
            /\ r.kind = "sequence" =>
                  r.from = IF r.match_dyn >= biased THEN "sam_dyn" ELSE "sam_static"

\* The length of the longest suffix of s that also occurs in s ending at an
\* earlier position.
LongestEarlierSuffix(s) ==
    IF s = <<>> THEN 0
    ELSE LongestSuffixIn(s, SubSeq(s, 1, Len(s) - 1))

\* Two automata have the same arena: the same states (transitions, links,
\* lengths, min_endpos and all), input_ids, last and max_length.
SameArena(a, b) ==
    /\ a.states = b.states
    /\ a.input_ids = b.input_ids
    /\ a.last = b.last
    /\ a.max_length = b.max_length

\* C11, the state part: the dynamic automaton's stream is what the drafter was
\* updated with since its construction or last reset and its cursor holds the
\* longest suffix of the stream that occurs earlier in it; after a reset the
\* static cursor holds the longest suffix of the same tokens that occurs in
\* the static stream.
C11_CursorsFollowUpdates ==
    /\ Stream(sam_dyn) = fed.x
    /\ sam_dyn.cur_length = LongestEarlierSuffix(fed.x)
    /\ fed.reset =>
          LET k == LongestSuffixIn(fed.x, Stream(sam_static)) IN
          /\ sam_static.cur_length = k
          /\ sam_static.cur_index = Path(sam_static, Suffix(fed.x, k))

\* C11, the step part: update(tokens) appends exactly tokens to the dynamic
\* stream, and no step of the drafter (update, lookup, reset) changes the
\* static arena; lookup changes neither automaton.
C11_StaticArenaKept ==
    /\ SameArena(sam_static', sam_static)
    /\ ret'.op = "update" =>
          /\ Len(fed'.x) >= Len(fed.x)
          /\ Stream(sam_dyn') = Stream(sam_dyn) \o
                                SubSeq(fed'.x, Len(fed.x) + 1, Len(fed'.x))
          /\ sam_dyn'.max_length = Len(Stream(sam_dyn'))
    /\ ret'.op = "lookup" => sam_dyn' = sam_dyn /\ sam_static' = sam_static

\* C11: the drafter's update(tokens) appends exactly tokens to the dynamic
\* automaton's indexed stream and advances its cursor, advances the static
\* cursor by the same tokens, and the static arena (states, input_ids, last,
\* max_length) is the same before and after any update and lookup calls.
C11_UpdateFrame == [](C11_CursorsFollowUpdates) /\ [][C11_StaticArenaKept]_vars

\* C11, witness: after a reset and updates both cursors hold a match, over a
\* static arena of more than one state.
C11_Witness ==
    /\ obj = "DraftModel"
    /\ ret.op = "update"
    /\ fed.reset
    /\ Len(fed.x) >= 2
    /\ sam_dyn.cur_length >= 1
    /\ sam_static.cur_length >= 1
    /\ sam_static.cur_length < Len(fed.x)

\* The cursor of an automaton.
Cursor(a) == <<a.cur_index, a.cur_length>>

\* C12, the state part: the dynamic automaton, arena and cursor, is the one a
\* fresh automaton becomes by add_tokens of the tokens replayed since the last
\* reset; right after a reset both cursors are (0,0); the static cursor is the
\* one that transfer_tokens of the replayed tokens yields from (0,0) over the
\* arena.
C12_ReplayFromFresh ==
    /\ sam_dyn = add_tokens(NewSAM(sam_dyn.n_predicts), fed.x)
    /\ ret.op = "reset" =>
          /\ fed.x = <<>>
          /\ Cursor(sam_dyn) = <<0, 0>>
          /\ Cursor(sam_static) = <<0, 0>>
    /\ fed.reset =>
          Cursor(sam_static) =
              Cursor(transfer_tokens(StaticReset(sam_static), fed.x))

\* C12, the step part: a reset leaves the static arena untouched.
C12_ResetKeepsStaticArena ==
    ret'.op = "reset" => SameArena(sam_static', sam_static)

\* C12: reset followed by replay is reproducible.  A dynamic automaton after
\* reset() and add_tokens(s) is identical, arena and cursor, to a fresh one
\* after add_tokens(s), whatever it had indexed before; a static automaton's
\* reset() keeps the arena and sets the cursor to (0,0), and the cursor after
\* replaying tokens is a function of the arena and those tokens alone.
C12_ResetReplay == [](C12_ReplayFromFresh) /\ [][C12_ResetKeepsStaticArena]_vars

\* C12, witness: tokens were replayed after a reset, far enough for the dynamic
\* automaton to clone a state and for the static cursor to have fallen back.
C12_Witness ==
    /\ obj = "DraftModel"
    /\ fed.reset
    /\ ret.op = "update"
    /\ Len(fed.x) >= 3
    /\ NumStates(sam_dyn.states) > Len(fed.x) + 1
    /\ sam_static.cur_length < Len(fed.x)

\* The cursor scenario is under way: the automaton has indexed 1,2,3,1,2,4 and
\* its cursor, reset, has been fed the first k tokens of 1,2,3,1,2.
FallbackFed(k) ==
    /\ obj = "StaticSAM"
    /\ Stream(sam_static) = FallbackCorpus
    /\ fed.reset
    /\ fed.x = SubSeq(FallbackFeed, 1, k)

\* C13, as stated: on the automaton that has indexed 1,2,3,1,2,4, from the
\* state reached by 1,2,3 with matched length 3, token 1 falls back to the
\* state of 1 (length 1) and the next token 2 advances to the state of 1,2,
\* final length 2.
C13_FallsBackToOne ==
    /\ FallbackFed(3) => Cursor(sam_static) = <<Path(sam_static, <<1, 2, 3>>), 3>>
    /\ FallbackFed(4) => Cursor(sam_static) = <<Path(sam_static, <<1>>), 1>>
    /\ FallbackFed(5) => Cursor(sam_static) = <<Path(sam_static, <<1, 2>>), 2>>

\* C13, as amended: from the state reached by 1,2,3 with matched length 3,
\* token 1 does not fall back: 1,2,3,1 occurs in the stream, the state has a
\* transition on 1 and the cursor advances to the state of 1,2,3,1 with length
\* 4 (a state other than that of 1); the next token 2 advances to the state of
\* 1,2,3,1,2, final length 5.
C13_AdvancesPastThree ==
    /\ FallbackFed(3) => Cursor(sam_static) = <<Path(sam_static, <<1, 2, 3>>), 3>>
    /\ FallbackFed(4) =>
          /\ Cursor(sam_static) = <<Path(sam_static, <<1, 2, 3, 1>>), 4>>
          /\ sam_static.cur_index # Path(sam_static, <<1>>)
    /\ FallbackFed(5) =>
          /\ Cursor(sam_static) = <<Path(sam_static, <<1, 2, 3, 1, 2>>), 5>>
          /\ sam_static.cur_index # Path(sam_static, <<1, 2>>)

\* C13, witness: the scenario has run to its end, token 2 was fed last.
C13_Witness ==
    /\ FallbackFed(5)
    /\ ret.op = "transfer_tokens"
    /\ sam_static.cur_index # 0

\* The parent array and the buffers of the last gen_buffers call.
BufAnc == ret.arg[1]
BufSize == Len(BufAnc)

\* The proper ancestors of node i in the tree of anc_tree.
RECURSIVE Ancestors(_, _)
Ancestors(anc_tree, i) ==
    IF i = 0 THEN {}
    ELSE {AncAt(anc_tree, i)} \cup Ancestors(anc_tree, AncAt(anc_tree, i))

\* The path from node 0 to node i, root first.
RECURSIVE RootPath(_, _)
RootPath(anc_tree, i) ==
    IF i = 0 THEN <<0>>
    ELSE Append(RootPath(anc_tree, AncAt(anc_tree, i)), i)

\* The leaves: the nodes that are the parent of no node j > 0.
Leaves(anc_tree) ==
    {i \in 0..(Len(anc_tree) - 1) :
        \A j \in 1..(Len(anc_tree) - 1) : AncAt(anc_tree, j) # i}

\* The k-th leaf in increasing index, k = 1, 2, ...
LeafAt(anc_tree, k) ==
    CHOOSE l \in Leaves(anc_tree) :
        Cardinality({m \in Leaves(anc_tree) : m < l}) = k - 1

\* The sequence of a buffer row, a function on 0..n-1.
RowSeq(row) == [k \in 1..Cardinality(DOMAIN row) |-> row[k - 1]]

\* C14: for every well-formed parent array, tree_retrieve_indices has one row
\* per leaf, rows in increasing leaf index, each row the path from node 0 to
\* the leaf, root first, right-padded with -1 to the longest path; for
\* [-1,0,0,1] it is [[0,2,-1],[0,1,3]], for the single node [[0]].
C14_RetrieveIndices ==
    ret.op = "gen_buffers" =>
        LET rows   == ret.val.tree_retrieve_indices
            leaves == Leaves(BufAnc)
            depth  == CHOOSE d \in 1..BufSize :
                          /\ \E l \in leaves : Len(RootPath(BufAnc, l)) = d
                          /\ \A l \in leaves : Len(RootPath(BufAnc, l)) <= d
        IN  /\ Len(rows) = Cardinality(leaves)
            /\ \A k \in 1..Len(rows) :
                  LET path == RootPath(BufAnc, LeafAt(BufAnc, k)) IN
                  /\ Len(rows[k]) = depth
                  /\ SubSeq(rows[k], 1, Len(path)) = path
                  /\ \A c \in (Len(path) + 1)..depth : rows[k][c] = 0 - 1
            /\ BufAnc = <<0 - 1, 0, 0, 1>> =>
                  rows = << <<0, 2, 0 - 1>>, <<0, 1, 3>> >>
            /\ BufAnc = <<0 - 1>> => rows = << <<0>> >>

\* C14, witness: a tree of two leaves or more whose paths differ in length,
\* an inner node among its nodes.
C14_Witness ==
    /\ ret.op = "gen_buffers"
    /\ Len(ret.val.tree_retrieve_indices) >= 2
    /\ \E k \in 1..Len(ret.val.tree_retrieve_indices) :
          ret.val.tree_retrieve_indices[k][Len(ret.val.tree_retrieve_indices[k])]
              = 0 - 1
    /\ BufSize >= 4

\* C15: for every well-formed parent array, tree_attn_mask[i][j] is true if
\* and only if j = i or j is an ancestor of i, tree_position_ids[i] is the
\* number of proper ancestors of i, and row i of the mask has
\* tree_position_ids[i] + 1 true entries; for [-1,0,0,1] row 3 is [T,T,F,T]
\* and the position ids are [0,1,1,2].
C15_MaskAndPositions ==
    ret.op = "gen_buffers" =>
        LET mask == ret.val.tree_attn_mask
            pos  == ret.val.tree_position_ids
            N    == 0..(BufSize - 1)
        IN  /\ DOMAIN mask = N /\ DOMAIN pos = N
            /\ \A i \in N :
                  /\ DOMAIN mask[i] = N
                  /\ \A j \in N :
                        mask[i][j] <=> (j = i \/ j \in Ancestors(BufAnc, i))
                  /\ pos[i] = Cardinality(Ancestors(BufAnc, i))
                  /\ Cardinality({j \in N : mask[i][j]}) = pos[i] + 1
            /\ BufAnc = <<0 - 1, 0, 0, 1>> =>
                  /\ RowSeq(mask[3]) = <<TRUE, TRUE, FALSE, TRUE>>
                  /\ RowSeq(pos) = <<0, 1, 1, 2>>

\* C15, witness: a node of depth 2 or more whose mask row leaves a node out.
C15_Witness ==
    /\ ret.op = "gen_buffers"
    /\ \E i \in DOMAIN ret.val.tree_position_ids :
          /\ ret.val.tree_position_ids[i] >= 2
          /\ \E j \in DOMAIN ret.val.tree_position_ids :
                j < i /\ ~ret.val.tree_attn_mask[i][j]

\* The last tree draft: its nodes are the positions 1..TreeSize of tree and
\* anc_tree (node k is position k + 1), TreeParent(k) the position of the
\* parent of the node at position k.
TreeSize == Len(ret.val.tree)
TreeParent(k) == ret.val.anc_tree[k] + 1
TreeCnt(k) == sam_dyn.states[ret.val.index[k]].cnt_endpos
TreeNext(k) == sam_dyn.states[ret.val.index[k]].next
TreeBudget == Min(sam_dyn.n_predicts, 1 + ret.arg[2] * Alpha)

\* The cumulative probability of the node at position k, a fraction: the
\* product along its root path of cnt_endpos(child) / cnt_endpos(parent), 1 for
\* the root.
RECURSIVE CumProb(_)
CumProb(k) ==
    IF ret.val.anc_tree[k] = 0 - 1 THEN [num |-> 1, den |-> 1]
    ELSE LET up == CumProb(TreeParent(k)) IN
         [num |-> up.num * TreeCnt(k), den |-> up.den * TreeCnt(TreeParent(k))]

\* p <= q for fractions of positive denominator.
FracLeq(p, q) == p.num * q.den <= q.num * p.den

\* The node at position j has a child for token t among the first k positions.
HasChildBefore(j, t, k) ==
    \E m \in 2..k : TreeParent(m) = j /\ ret.val.tree[m] = t

\* C16: the tree gen_draft is best-first.  Every node but the root is reached
\* by the transition on its token from its parent's state, every weight
\* cnt_endpos(child)/cnt_endpos(parent) of an expanded node lies in (0,1], the
\* key of an extracted item is the negated cumulative probability, no item left
\* in the queue when a node is extracted has a higher cumulative probability,
\* and the nodes appear in non-increasing order of cumulative probability.
C16_BestFirst ==
    ret.op = "gen_draft" =>
        /\ ret.val.raised = ""
        /\ \A k \in 2..TreeSize :
              /\ ret.val.tree[k] \in DOMAIN TreeNext(TreeParent(k))
              /\ ret.val.index[k] = TreeNext(TreeParent(k))[ret.val.tree[k]]
        /\ \A j \in 1..TreeSize : \A t \in DOMAIN TreeNext(j) :
              (j < TreeSize \/ TreeSize < TreeBudget) =>
                  /\ sam_dyn.states[TreeNext(j)[t]].cnt_endpos > 0
                  /\ sam_dyn.states[TreeNext(j)[t]].cnt_endpos <= TreeCnt(j)
        /\ \A k \in 1..TreeSize :
              ret.val.prob[k].num * CumProb(k).den
                  = (0 - CumProb(k).num) * ret.val.prob[k].den
        /\ \A k \in 2..TreeSize : \A j \in 1..(k - 1) :
              \A t \in DOMAIN TreeNext(j) :
                  \/ HasChildBefore(j, t, k - 1)
                  \/ FracLeq([num |-> CumProb(j).num
                                        * sam_dyn.states[TreeNext(j)[t]].cnt_endpos,
                              den |-> CumProb(j).den * TreeCnt(j)],
                             CumProb(k))
        /\ \A k \in 2..TreeSize : FracLeq(CumProb(k), CumProb(k - 1))

\* C16, witness: a best-first tree of four nodes or more in which a node was
\* extracted ahead of the children of the node before it, and the probability
\* drops below 1.
C16_Witness ==
    /\ ret.op = "gen_draft"
    /\ ret.val.raised = ""
    /\ TreeSize >= 4
    /\ \E k \in 3..TreeSize : TreeParent(k) < k - 1
    /\ \E k \in 2..TreeSize : ~FracLeq(CumProb(k - 1), CumProb(k))

\* C17: every tree of the best-first gen_draft and of the breadth-first
\* gen_tree_draft, for the budget n >= 1, has 1 <= len(tree) = len(anc_tree)
\* <= n, tree[0] = start_token, anc_tree[0] = -1 and 0 <= anc_tree[i] < i for
\* i > 0; it is shorter than n only when the frontier ran empty (every
\* transition of every node's state is a node of the tree); with n = 1 it is
\* [start_token] with anc_tree = [-1].
C17_TreeWellFormed ==
    ret.op \in {"gen_draft", "gen_tree_draft"} =>
        /\ ret.val.raised = ""
        /\ TreeBudget >= 1
        /\ TreeSize >= 1
        /\ TreeSize <= TreeBudget
        /\ Len(ret.val.anc_tree) = TreeSize
        /\ ret.val.tree[1] = ret.arg[3]
        /\ ret.val.anc_tree[1] = 0 - 1
        /\ \A k \in 2..TreeSize :
              ret.val.anc_tree[k] >= 0 /\ ret.val.anc_tree[k] < k - 1
        /\ TreeSize < TreeBudget =>
              \A j \in 1..TreeSize : \A t \in DOMAIN TreeNext(j) :
                  HasChildBefore(j, t, TreeSize)
        /\ TreeBudget = 1 =>
              ret.val.tree = <<ret.arg[3]>> /\ ret.val.anc_tree = <<0 - 1>>

\* C17, witness: a breadth-first tree cut at its budget of three nodes or
\* more, two of them children of the root.
C17_Witness ==
    /\ ret.op = "gen_tree_draft"
    /\ TreeSize >= 3
    /\ TreeSize = TreeBudget
    /\ ret.val.anc_tree[2] = 0
    /\ ret.val.anc_tree[3] = 0
    /\ \E t \in DOMAIN TreeNext(2) : ~HasChildBefore(2, t, TreeSize)

\* The number of suffix links from state v to state 0.
RECURSIVE Hops(_, _)
Hops(states, v) == IF v = 0 THEN 0 ELSE 1 + Hops(states, states[v].link)

\* C18: after every completed add_state every non-initial state v links to an
\* existing state with length(link(v)) < length(v), state 0 keeps link = -1
\* and length = 0, and the suffix links lead from v to state 0 in at most
\* length(v) hops; clones and the states redirected to a clone included.
C18_LinksShorten ==
    LET states == sam_dyn.states IN
    /\ states[0].link = NoLink
    /\ states[0].length = 0
    /\ \A v \in DOMAIN states \ {0} :
          /\ states[v].link \in DOMAIN states
          /\ states[states[v].link].length < states[v].length
    /\ \A v \in DOMAIN states : Hops(states, v) <= states[v].length

\* C18, witness: a clone, and an older state whose link was redirected to it,
\* two hops or more from state 0.
C18_Witness ==
    /\ ret.op = "add_tokens"
    /\ \E q, clone \in DOMAIN sam_dyn.states :
          /\ q < clone
          /\ sam_dyn.states[clone].length < sam_dyn.states[clone].min_endpos
          /\ sam_dyn.states[q].link = clone
          /\ sam_dyn.states[clone].link # 0
          /\ Hops(sam_dyn.states, q) >= 3

\* C19, the state part: the arena of either automaton, the dynamic one after
\* add_tokens and the static one built from a batch (its stream includes the
\* appended eos tokens), holds 2*|s| + 1 states at most, indexed 0..len-1.
C19_AtMostTwicePlusOne ==
    \A a \in {sam_dyn, sam_static} :
        /\ NumStates(a.states) <= 2 * Len(Stream(a)) + 1
        /\ DOMAIN a.states = 0..(NumStates(a.states) - 1)
        /\ Len(Stream(a)) = a.max_length

\* C19, the step part: add_tokens of k tokens creates k to 2*k states, one or
\* two per add_state, and every state there was is still there, in its place.
C19_StatesOnlyCreated ==
    ret'.op = "add_tokens" =>
        LET k == sam_dyn'.max_length - sam_dyn.max_length
            created == NumStates(sam_dyn'.states) - NumStates(sam_dyn.states)
        IN  /\ created >= k
            /\ created <= 2 * k
            /\ \A v \in DOMAIN sam_dyn.states :
                  /\ v \in DOMAIN sam_dyn'.states
                  /\ sam_dyn'.states[v].length = sam_dyn.states[v].length
                  /\ sam_dyn'.states[v].min_endpos = sam_dyn.states[v].min_endpos

\* C19: after add_tokens over any stream s (also a static automaton built from
\* a batch) the arena holds at most 2*|s| + 1 states; each add_state creates
\* one or two states and never deletes or reorders an existing one.
C19_ArenaGrowth == [](C19_AtMostTwicePlusOne) /\ [][C19_StatesOnlyCreated]_vars

\* C19, witness: an add_state created two states, the new one and a clone.
C19_Witness ==
    /\ obj = "DynSAM"
    /\ ret.op = "add_tokens"
    /\ sam_dyn.max_length >= 3
    /\ NumStates(sam_dyn.states) >= sam_dyn.max_length + 2

\* C20: after every completed public operation of either automaton
\* (add_tokens, transfer_tokens, lookup, reset, StaticSAM.build) max_length =
\* len(input_ids) - 1 = length(states[last]) and input_ids[0] is -1.
C20_MaxLength ==
    \A a \in {sam_dyn, sam_static} :
        /\ a.max_length = Len(a.input_ids) - 1
        /\ a.last \in DOMAIN a.states
        /\ a.max_length = a.states[a.last].length
        /\ a.input_ids[1] = 0 - 1

\* C20, witness: both automata hold two tokens or more, the dynamic one after
\* a reset and updates, its last state followed by a clone.
C20_Witness ==
    /\ obj = "DraftModel"
    /\ fed.reset
    /\ ret.op \in {"update", "lookup"}
    /\ sam_dyn.max_length >= 3
    /\ sam_dyn.last # NumStates(sam_dyn.states) - 1
    /\ sam_static.max_length >= 2

\* C21: the best-first gen_draft never divides by zero on an (index,
\* match_length) pair that lookup returned or the cursor holds.  State 0 keeps
\* cnt_endpos = 0, every other state has cnt_endpos >= 1, no transition
\* points to state 0; a draft from state 0 has match_length 0, hence budget 1
\* and the root alone, no child expanded; every node of a draft that was
\* expanded and has a transition has a positive cnt_endpos.
C21_NoDivisionByZero ==
    /\ sam_dyn.states[0].cnt_endpos = 0
    /\ \A v \in DOMAIN sam_dyn.states \ {0} : sam_dyn.states[v].cnt_endpos >= 1
    /\ \A v \in DOMAIN sam_dyn.states : \A t \in DOMAIN sam_dyn.states[v].next :
          sam_dyn.states[v].next[t] # 0
    /\ ret.op = "gen_draft" =>
          /\ ret.val.raised = ""
          /\ ret.arg[1] = 0 =>
                /\ ret.arg[2] = 0
                /\ TreeBudget = 1
                /\ ret.val.tree = <<ret.arg[3]>>
          /\ \A j \in 1..TreeSize :
                (/\ j < TreeSize \/ TreeSize < TreeBudget
                 /\ DOMAIN TreeNext(j) # {}) => TreeCnt(j) >= 1

\* C21, witness: a draft from state 0 of an automaton whose state 0 has
\* transitions and whose max_predicts allows more than one node.
C21_Witness ==
    /\ ret.op = "gen_draft"
    /\ ret.val.raised = ""
    /\ ret.arg[1] = 0
    /\ sam_dyn.max_length >= 2
    /\ DOMAIN sam_dyn.states[0].next # {}
    /\ sam_dyn.n_predicts >= 2

\* C22: on a dynamic automaton driven by reset and add_tokens (and lookup,
\* which changes nothing) the cursor lags the index.  After add_tokens of a
\* non-empty stream cur_length <= max_length - 1, cur_length is the length of
\* the longest suffix of the stream that also occurs ending at an earlier
\* position, and if cur_index # 0 then min_endpos(cur_index) < max_length:
\* the matched suffix occurs ending at min_endpos(cur_index) and at least one
\* indexed token follows it.
C22_CursorLags ==
    LET s == Stream(sam_dyn) IN
    sam_dyn.max_length > 0 =>
        /\ Len(s) = sam_dyn.max_length
        /\ sam_dyn.cur_length <= sam_dyn.max_length - 1
        /\ sam_dyn.cur_length = LongestEarlierSuffix(s)
        /\ sam_dyn.cur_index # 0 =>
              /\ sam_dyn.states[sam_dyn.cur_index].min_endpos < sam_dyn.max_length
              /\ sam_dyn.states[sam_dyn.cur_index].min_endpos
                    \in EndPos(Suffix(s, sam_dyn.cur_length), s)

\* C22, witness: the cursor holds a match of two tokens or more whose first
\* occurrence ends two tokens or more before the end of the stream.
C22_Witness ==
    /\ ret.op = "add_tokens"
    /\ sam_dyn.cur_index # 0
    /\ sam_dyn.cur_length >= 2
    /\ sam_dyn.states[sam_dyn.cur_index].min_endpos <= sam_dyn.max_length - 2

====
